---- MODULE Spec2Model ----
(***************************************************************************)
(* Pipeline-progress reconstruction (the LogDisplay reducer) and the       *)
(* sample registry (the zustand store) of the sequence-analysis client.    *)
(*                                                                         *)
(* Conventions of the translation                                          *)
(*  - JavaScript arrays are sequences; an index is 1-based and 0 stands    *)
(*    for the -1 of findIndex.                                             *)
(*  - undefined is the string "undefined"; null (no verification update)   *)
(*    is the record NullLog.                                               *)
(*  - A log message is a sequence of words separated by single blanks;     *)
(*    String.includes of a phrase is containment of the phrase's words as  *)
(*    a contiguous run, toLowerCase is applied word by word.               *)
(***************************************************************************)
EXTENDS Integers, Sequences, FiniteSets, TLC

VARIABLES
    logs,                     \* the logs prop of LogDisplay
    pipelineSteps,            \* useState(INITIAL_PIPELINE)
    lastVerificationUpdate,   \* useState(null)
    samples,                  \* useStore: samples
    uploading,                \* SamplesScreen: useState(false)
    pc                        \* where each invocation of handleUpload stands

vars == <<logs, pipelineSteps, lastVerificationUpdate, samples, uploading, pc>>

reducerVars == <<logs, pipelineSteps, lastVerificationUpdate>>

uploadVars == <<uploading, pc>>

-----------------------------------------------------------------------------
(* Bounds *)

MaxLog == 3

MaxSamples == 2

MaxEntries == 2

MaxUploads == 2

-----------------------------------------------------------------------------
(* Events (AnalysisLog) *)

Undefined == "undefined"

MkLog(t, m, s, st, d) ==
    [type |-> t, message |-> m, step |-> s, status |-> st, data |-> d]

NullLog == MkLog("null", <<>>, "", "", Undefined)

LogEvent(m) == MkLog("log", m, "", "", Undefined)

ProgressEvent(s, st) == MkLog("progress", <<>>, s, st, Undefined)

ClusteringEvent(d) == MkLog("clustering_result", <<>>, "", "", d)

VerificationEvent(d) == MkLog("verification_update", <<>>, "", "", d)

CompleteEvent == MkLog("complete", <<>>, "", "", Undefined)

ErrorEvent == MkLog("error", <<"failed">>, "", "", Undefined)

JsonResultEvent(d) == MkLog("json_result", <<>>, "", "", d)

\* String.prototype.toLowerCase, word by word
LowerWord(w) ==
    CASE w = "Reading"      -> "reading"
      [] w = "Found"        -> "found"
      [] w = "Sequences"    -> "sequences"
      [] w = "Generating"   -> "generating"
      [] w = "Embeddings"   -> "embeddings"
      [] w = "Running"      -> "running"
      [] w = "UMAP"         -> "umap"
      [] w = "Clustering"   -> "clustering"
      [] w = "Complete"     -> "complete"
      [] w = "NCBI"         -> "ncbi"
      [] w = "Verification" -> "verification"
      [] OTHER              -> w

toLowerCase(m) == [i \in DOMAIN m |-> LowerWord(m[i])]

\* String.prototype.includes
includes(m, phrase) ==
    \E i \in 0..(Len(m) - Len(phrase)) :
        \A j \in 1..Len(phrase) : m[i + j] = phrase[j]

-----------------------------------------------------------------------------
(* Pipeline steps *)

StepIds ==
    << "read_sequences", "generate_embeddings", "umap_hdbscan",
       "clustering_result", "ncbi_verification", "analysis_complete" >>

StepLabels ==
    << "Reading Sequences...", "Generating AI Embeddings...",
       "Running UMAP & HDBSCAN...", "Clustering Complete",
       "Starting NCBI Verification (Slow)...", "Analysis Complete" >>

\* a step without a resultData key reads resultData as undefined
INITIAL_PIPELINE ==
    [i \in 1..6 |->
        [id |-> StepIds[i], label |-> StepLabels[i], status |-> "pending",
         resultData |-> Undefined]]

\* newSteps.findIndex(s => s.id === id); 0 when there is none
findIndexById(newSteps, id) ==
    IF \E i \in DOMAIN newSteps : newSteps[i].id = id
    THEN CHOOSE i \in DOMAIN newSteps :
            /\ newSteps[i].id = id
            /\ \A j \in DOMAIN newSteps : newSteps[j].id = id => i <= j
    ELSE 0

\* The closures of the updater work on st = [newSteps, changed].
handleCompletionOverwrite(st, stepId, resultData) ==
    LET index == findIndexById(st.newSteps, stepId)
    IN  IF index # 0
        THEN LET done == [st.newSteps EXCEPT ![index].status = "complete",
                                             ![index].resultData = resultData]
                 nextIndex == index + 1
             IN  [newSteps |->
                     IF nextIndex <= Len(done) /\ done[nextIndex].status = "pending"
                     THEN [done EXCEPT ![nextIndex].status = "active"]
                     ELSE done,
                  changed |-> TRUE]
        ELSE st

handleCompletionOnlyIfActive(st, stepId, resultData) ==
    LET index == findIndexById(st.newSteps, stepId)
    IN  IF index # 0 /\ st.newSteps[index].status = "active"
        THEN LET done == [st.newSteps EXCEPT ![index].status = "complete",
                                             ![index].resultData = resultData]
                 nextIndex == index + 1
             IN  [newSteps |->
                     IF nextIndex <= Len(done) /\ done[nextIndex].status = "pending"
                     THEN [done EXCEPT ![nextIndex].status = "active"]
                     ELSE done,
                  changed |-> TRUE]
        ELSE st

handleCompletionNoCascade(st, stepId, resultData) ==
    LET index == findIndexById(st.newSteps, stepId)
    IN  IF index # 0 /\ st.newSteps[index].status # "complete"
        THEN [newSteps |-> [st.newSteps EXCEPT ![index].status = "complete",
                                               ![index].resultData = resultData],
              changed |-> TRUE]
        ELSE st

handleCompletionForceNext(st, stepId, resultData) ==
    LET index == findIndexById(st.newSteps, stepId)
    IN  IF index # 0 /\ st.newSteps[index].status # "complete"
        THEN LET done == [st.newSteps EXCEPT ![index].status = "complete",
                                             ![index].resultData = resultData]
                 nextIndex == index + 1
             IN  [newSteps |->
                     IF nextIndex <= Len(done)
                     THEN [done EXCEPT ![nextIndex].status = "active"]
                     ELSE done,
                  changed |-> TRUE]
        ELSE st

handleCompletion(st, stepId, resultData) ==
    LET index == findIndexById(st.newSteps, stepId)
    IN  IF index # 0 /\ st.newSteps[index].status # "complete"
        THEN LET done == [st.newSteps EXCEPT ![index].status = "complete",
                                             ![index].resultData = resultData]
                 nextIndex == index + 1
             IN  [newSteps |->
                     IF nextIndex <= Len(done) /\ done[nextIndex].status = "pending"
                     THEN [done EXCEPT ![nextIndex].status = "active"]
                     ELSE done,
                  changed |-> TRUE]
        ELSE st

activateStepAlways(st, stepId) ==
    LET index == findIndexById(st.newSteps, stepId)
    IN  IF index # 0
        THEN [newSteps |-> [st.newSteps EXCEPT ![index].status = "active"],
              changed |-> TRUE]
        ELSE st

activateStep(st, stepId) ==
    LET index == findIndexById(st.newSteps, stepId)
    IN  IF index # 0 /\ st.newSteps[index].status = "pending"
        THEN [newSteps |-> [st.newSteps EXCEPT ![index].status = "active"],
              changed |-> TRUE]
        ELSE st

handleLogMessageCatchAll(st, lastLog) ==
    LET message == toLowerCase(lastLog.message)
    IN  IF includes(message, <<"reading", "sequences">>)
        THEN activateStep(st, "read_sequences")
        ELSE IF includes(message, <<"found">>) /\ includes(message, <<"sequences">>)
        THEN handleCompletion(st, "read_sequences", Undefined)
        ELSE IF includes(message, <<"generating">>) /\ includes(message, <<"embeddings">>)
        THEN activateStep(st, "generate_embeddings")
        ELSE IF includes(message, <<"running", "umap">>)
        THEN activateStep(handleCompletion(st, "generate_embeddings", Undefined),
                          "umap_hdbscan")
        ELSE IF includes(message, <<"clustering", "complete">>)
        THEN handleCompletion(st, "umap_hdbscan", Undefined)
        ELSE activateStep(st, "ncbi_verification")

handleLogMessageLaterFirst(st, lastLog) ==
    LET message == toLowerCase(lastLog.message)
    IN  IF includes(message, <<"ncbi", "verification">>)
        THEN activateStep(st, "ncbi_verification")
        ELSE IF includes(message, <<"clustering", "complete">>)
        THEN handleCompletion(st, "umap_hdbscan", Undefined)
        ELSE IF includes(message, <<"running", "umap">>)
        THEN activateStep(handleCompletion(st, "generate_embeddings", Undefined),
                          "umap_hdbscan")
        ELSE IF includes(message, <<"generating">>) /\ includes(message, <<"embeddings">>)
        THEN activateStep(st, "generate_embeddings")
        ELSE IF includes(message, <<"found">>) /\ includes(message, <<"sequences">>)
        THEN handleCompletion(st, "read_sequences", Undefined)
        ELSE IF includes(message, <<"reading", "sequences">>)
        THEN activateStep(st, "read_sequences")
        ELSE st

\* A. log messages: the else-if chain
handleLogMessage(st, lastLog) ==
    LET message == toLowerCase(lastLog.message)
    IN  IF includes(message, <<"reading", "sequences">>)
        THEN activateStep(st, "read_sequences")
        ELSE IF includes(message, <<"found">>) /\ includes(message, <<"sequences">>)
        THEN handleCompletion(st, "read_sequences", Undefined)
        ELSE IF includes(message, <<"generating">>) /\ includes(message, <<"embeddings">>)
        THEN activateStep(st, "generate_embeddings")
        ELSE IF includes(message, <<"running", "umap">>)
        THEN activateStep(handleCompletion(st, "generate_embeddings", Undefined),
                          "umap_hdbscan")
        ELSE IF includes(message, <<"clustering", "complete">>)
        THEN handleCompletion(st, "umap_hdbscan", Undefined)
        ELSE IF includes(message, <<"ncbi", "verification">>)
        THEN activateStep(st, "ncbi_verification")
        ELSE st

stepsUpdaterAnyProgress(prevSteps, lastLog) ==
    LET s0 == [newSteps |-> prevSteps, changed |-> FALSE]
        sA == IF lastLog.type = "log" THEN handleLogMessage(s0, lastLog) ELSE s0
        sB == IF lastLog.type = "progress" /\ lastLog.step # ""
              THEN handleCompletion(sA, lastLog.step, Undefined) ELSE sA
        sC == IF lastLog.type = "clustering_result"
              THEN handleCompletion(handleCompletion(sB, "umap_hdbscan", Undefined),
                                    "clustering_result", lastLog.data)
              ELSE sB
        sD == IF lastLog.type = "complete"
              THEN handleCompletion(handleCompletion(sC, "ncbi_verification", Undefined),
                                    "analysis_complete", Undefined)
              ELSE sC
        sE == IF lastLog.type = "verification_update"
              THEN activateStep(sD, "ncbi_verification") ELSE sD
    IN  IF sE.changed THEN sE.newSteps ELSE prevSteps

\* The function passed to setPipelineSteps, for one event lastLog
stepsUpdater(prevSteps, lastLog) ==
    LET s0 == [newSteps |-> prevSteps, changed |-> FALSE]
        sA == IF lastLog.type = "log" THEN handleLogMessage(s0, lastLog) ELSE s0
        sB == IF lastLog.type = "progress" /\ lastLog.status = "complete"
                 /\ lastLog.step # ""
              THEN handleCompletion(sA, lastLog.step, Undefined) ELSE sA
        sC == IF lastLog.type = "clustering_result"
              THEN handleCompletion(handleCompletion(sB, "umap_hdbscan", Undefined),
                                    "clustering_result", lastLog.data)
              ELSE sB
        sD == IF lastLog.type = "complete"
              THEN handleCompletion(handleCompletion(sC, "ncbi_verification", Undefined),
                                    "analysis_complete", Undefined)
              ELSE sC
        sE == IF lastLog.type = "verification_update"
              THEN activateStep(sD, "ncbi_verification") ELSE sD
    IN  IF sE.changed THEN sE.newSteps ELSE prevSteps

\* setLastVerificationUpdate(lastLog) inside the updater
verificationUpdater(prevUpdate, lastLog) ==
    IF lastLog.type = "verification_update" THEN lastLog ELSE prevUpdate

\* The updater applied to one event after the other, as the effect does when
\* every event of L arrives in an update of its own
RECURSIVE FoldEvents(_, _)
FoldEvents(steps, L) ==
    IF L = <<>> THEN steps
    ELSE FoldEvents(stepsUpdater(steps, Head(L)), Tail(L))

LogDisplayEffectFirst(newLogs) ==
    IF Len(newLogs) = 0
    THEN /\ pipelineSteps' = INITIAL_PIPELINE
         /\ lastVerificationUpdate' = NullLog
    ELSE LET lastLog == newLogs[1]
         IN  /\ pipelineSteps' = stepsUpdater(pipelineSteps, lastLog)
             /\ lastVerificationUpdate' =
                    verificationUpdater(lastVerificationUpdate, lastLog)

LogDisplayEffectWholeLog(newLogs) ==
    IF Len(newLogs) = 0
    THEN /\ pipelineSteps' = INITIAL_PIPELINE
         /\ lastVerificationUpdate' = NullLog
    ELSE LET lastLog == newLogs[Len(newLogs)]
         IN  /\ pipelineSteps' = FoldEvents(INITIAL_PIPELINE, newLogs)
             /\ lastVerificationUpdate' =
                    verificationUpdater(lastVerificationUpdate, lastLog)

LogDisplayEffectNoReset(newLogs) ==
    IF Len(newLogs) = 0
    THEN UNCHANGED <<pipelineSteps, lastVerificationUpdate>>
    ELSE LET lastLog == newLogs[Len(newLogs)]
         IN  /\ pipelineSteps' = stepsUpdater(pipelineSteps, lastLog)
             /\ lastVerificationUpdate' =
                    verificationUpdater(lastVerificationUpdate, lastLog)

\* The effect of LogDisplay, run after the logs prop has become newLogs
LogDisplayEffect(newLogs) ==
    IF Len(newLogs) = 0
    THEN /\ pipelineSteps' = INITIAL_PIPELINE
         /\ lastVerificationUpdate' = NullLog
    ELSE LET lastLog == newLogs[Len(newLogs)]
         IN  /\ pipelineSteps' = stepsUpdater(pipelineSteps, lastLog)
             /\ lastVerificationUpdate' =
                    verificationUpdater(lastVerificationUpdate, lastLog)

-----------------------------------------------------------------------------
(* The two views of LogDisplay.tsx *)

\* JSON.stringify(jsonData, null, 2): a text for a payload, undefined for
\* undefined
JSONstringify(d) == IF d = Undefined THEN Undefined ELSE <<"json text", d>>

LogDisplayViewByLast(L) ==
    IF Len(L) > 0 /\ L[Len(L)].type = "json_result"
    THEN [mode |-> "json", shown |-> JSONstringify(L[Len(L)].data),
          derivesSteps |-> FALSE]
    ELSE [mode |-> "pipeline", shown |-> Undefined, derivesSteps |-> TRUE]

\* What a render of LogDisplay shows for the logs prop L: the early return of
\* the JSON view comes before the useMemo that derives the steps
LogDisplayView(L) ==
    IF Len(L) > 0 /\ L[1].type = "json_result"
    THEN [mode |-> "json", shown |-> JSONstringify(L[1].data),
          derivesSteps |-> FALSE]
    ELSE [mode |-> "pipeline", shown |-> Undefined, derivesSteps |-> TRUE]

-----------------------------------------------------------------------------
(* The LogDisplay component: every change of the logs prop runs the effect *)

Events ==
    { LogEvent(<<"Reading", "sequences">>),
      LogEvent(<<"Found", "1000", "sequences">>),
      LogEvent(<<"Running", "UMAP">>),
      LogEvent(<<"NCBI", "verification">>),
      ProgressEvent("clustering_result", "complete"),
      ClusteringEvent("d1"),
      ClusteringEvent("d2"),
      VerificationEvent("v1"),
      CompleteEvent,
      ErrorEvent }

Init ==
    /\ logs = <<>>
    /\ pipelineSteps = INITIAL_PIPELINE
    /\ lastVerificationUpdate = NullLog
    /\ samples = <<>>
    /\ uploading = FALSE
    /\ pc = [i \in 1..MaxUploads |-> "idle"]

\* the parent appends one event: setLogs([...logs, e])
AppendLog(e) ==
    /\ Len(logs) < MaxLog
    /\ logs' = Append(logs, e)
    /\ LogDisplayEffect(logs')
    /\ UNCHANGED <<samples, uploadVars>>

\* the parent appends two events in one update: setLogs([...logs, e1, e2])
AppendLogs(e1, e2) ==
    /\ Len(logs) + 2 <= MaxLog
    /\ logs' = logs \o <<e1, e2>>
    /\ LogDisplayEffect(logs')
    /\ UNCHANGED <<samples, uploadVars>>

\* the parent starts a new log over an old one: setLogs([e])
ReplaceLogs(e) ==
    /\ logs # <<>>
    /\ logs # <<e>>
    /\ logs' = <<e>>
    /\ LogDisplayEffect(logs')
    /\ UNCHANGED <<samples, uploadVars>>

\* the parent empties the log: setLogs([])
ClearLogs ==
    /\ logs # <<>>
    /\ logs' = <<>>
    /\ LogDisplayEffect(logs')
    /\ UNCHANGED <<samples, uploadVars>>

Next ==
    \/ \E e \in Events : AppendLog(e)
    \/ \E e1, e2 \in Events : AppendLogs(e1, e2)
    \/ \E e \in Events : ReplaceLogs(e)
    \/ ClearLogs

Spec == Init /\ [][Next]_vars

-----------------------------------------------------------------------------
(* The same component fed one event per update, over every kind of event *)

LogMessages ==
    { <<"Reading", "sequences">>,
      <<"Found", "1000", "sequences">>,
      <<"Reading", "sequences", "found">>,
      <<"Generating", "embeddings">>,
      <<"Running", "UMAP">>,
      <<"Clustering", "complete">>,
      <<"NCBI", "verification">>,
      <<"Found", "sequences", "Generating", "embeddings">>,
      <<"Generating", "embeddings", "Running", "UMAP">>,
      <<"Running", "UMAP", "Clustering", "complete">>,
      <<"Clustering", "complete", "NCBI", "verification">>,
      <<"Connected">> }

RuleEvents ==
    { LogEvent(m) : m \in LogMessages }
    \cup { ProgressEvent(StepIds[i], "complete") : i \in 1..6 }
    \cup { ProgressEvent("umap_hdbscan", "running"),
           ProgressEvent("", "complete"),
           ProgressEvent("quality_control", "complete") }
    \cup { ClusteringEvent("d1"), ClusteringEvent("d2"),
           VerificationEvent("v1"), VerificationEvent("v2"),
           CompleteEvent, ErrorEvent,
           JsonResultEvent("j1"), JsonResultEvent("j2") }

NextRules ==
    \/ \E e \in RuleEvents : AppendLog(e)
    \/ ClearLogs

SpecRules == Init /\ [][NextRules]_vars

-----------------------------------------------------------------------------
(* The sample registry: useStore *)

FileIds == {"f1", "f2"}

SampleIds == {"s1"}

StatusValues == {"uploading", "running", "complete", "error"}

LogLines == {"l1", "l2"}

ProgressSteps == {"p1"}

VerificationUpdates == {"v1"}

AnalysisResults == {"r1"}

\* the Sample that handleUpload builds from the upload response (uploadDate,
\* a clock reading that no registry operation reads or writes, is left out)
newSample(file_id, sample_id) ==
    [fileId |-> file_id, sampleId |-> sample_id, status |-> "uploading",
     fileName |-> "sample.fasta",
     logs |-> <<>>, progress |-> <<>>, verificationUpdates |-> <<>>,
     latestAnalysis |-> Undefined]

\* state.samples.map(f) is written [i \in DOMAIN ss |-> f(ss[i])]

RECURSIVE SumLen(_, _)
SumLen(xs, i) ==
    IF i = 0 THEN 0
    ELSE Len(xs[i].logs) + Len(xs[i].progress) + Len(xs[i].verificationUpdates)
         + SumLen(xs, i - 1)

\* entries held by the whole registry, bounded by MaxEntries
TotalEntries == SumLen(samples, Len(samples))

addSample(sample) ==
    /\ Len(samples) < MaxSamples
    /\ samples' = Append(samples, sample)
    /\ UNCHANGED <<reducerVars, uploadVars>>

\* The functions handed to set(), from a samples array ss to the new one
withStatusOfAll(ss, fileId, status) ==
    [i \in DOMAIN ss |-> [ss[i] EXCEPT !.status = status]]

withStatusOthersDropped(ss, fileId, status) ==
    LET kept == SelectSeq(ss, LAMBDA s : s.fileId = fileId)
    IN  [i \in DOMAIN kept |-> [kept[i] EXCEPT !.status = status]]

withStatusAppendsToo(ss, fileId, status) ==
    LET f(s) == IF s.fileId = fileId
                THEN [s EXCEPT !.status = status, !.logs = Append(s.logs, status)]
                ELSE s
    IN  [i \in DOMAIN ss |-> f(ss[i])]

withStatus(ss, fileId, status) ==
    LET f(s) == IF s.fileId = fileId THEN [s EXCEPT !.status = status] ELSE s
    IN  [i \in DOMAIN ss |-> f(ss[i])]

withLogUpsert(ss, fileId, log) ==
    IF \E i \in DOMAIN ss : ss[i].fileId = fileId
    THEN LET f(s) == IF s.fileId = fileId
                     THEN [s EXCEPT !.logs = Append(s.logs, log)] ELSE s
         IN  [i \in DOMAIN ss |-> f(ss[i])]
    ELSE Append(ss, [fileId |-> fileId, sampleId |-> Undefined,
                     status |-> "running", fileName |-> Undefined,
                     logs |-> <<log>>, progress |-> <<>>,
                     verificationUpdates |-> <<>>, latestAnalysis |-> Undefined])

withLog(ss, fileId, log) ==
    LET f(s) == IF s.fileId = fileId
                THEN [s EXCEPT !.logs = Append(s.logs, log)] ELSE s
    IN  [i \in DOMAIN ss |-> f(ss[i])]

withProgress(ss, fileId, progress) ==
    LET f(s) == IF s.fileId = fileId
                THEN [s EXCEPT !.progress = Append(s.progress, progress)] ELSE s
    IN  [i \in DOMAIN ss |-> f(ss[i])]

withAnalysisResult(ss, fileId, result) ==
    LET f(s) == IF s.fileId = fileId THEN [s EXCEPT !.latestAnalysis = result] ELSE s
    IN  [i \in DOMAIN ss |-> f(ss[i])]

withVerificationUpdate(ss, fileId, update) ==
    LET f(s) == IF s.fileId = fileId
                THEN [s EXCEPT !.verificationUpdates =
                                   Append(s.verificationUpdates, update)]
                ELSE s
    IN  [i \in DOMAIN ss |-> f(ss[i])]

updateSampleStatus(fileId, status) ==
    /\ samples' = withStatus(samples, fileId, status)
    /\ UNCHANGED <<reducerVars, uploadVars>>

addSampleLogPrepend(fileId, log) ==
    /\ TotalEntries < MaxEntries
    /\ LET f(s) == IF s.fileId = fileId
                   THEN [s EXCEPT !.logs = <<log>> \o s.logs] ELSE s
       IN  samples' = [i \in DOMAIN samples |-> f(samples[i])]
    /\ UNCHANGED <<reducerVars, uploadVars>>

addSampleLog(fileId, log) ==
    /\ TotalEntries < MaxEntries
    /\ samples' = withLog(samples, fileId, log)
    /\ UNCHANGED <<reducerVars, uploadVars>>

updateSampleProgress(fileId, progress) ==
    /\ TotalEntries < MaxEntries
    /\ samples' = withProgress(samples, fileId, progress)
    /\ UNCHANGED <<reducerVars, uploadVars>>

setSampleAnalysisResult(fileId, result) ==
    /\ samples' = withAnalysisResult(samples, fileId, result)
    /\ UNCHANGED <<reducerVars, uploadVars>>

addSampleVerificationUpdate(fileId, update) ==
    /\ TotalEntries < MaxEntries
    /\ samples' = withVerificationUpdate(samples, fileId, update)
    /\ UNCHANGED <<reducerVars, uploadVars>>

\* Array.prototype.find: the first record with the fileId, or undefined
getSample(fileId) ==
    IF \E i \in DOMAIN samples : samples[i].fileId = fileId
    THEN samples[CHOOSE i \in DOMAIN samples :
                    /\ samples[i].fileId = fileId
                    /\ \A j \in DOMAIN samples : samples[j].fileId = fileId => i <= j]
    ELSE Undefined

NextStore ==
    \/ \E f \in FileIds, sid \in SampleIds : addSample(newSample(f, sid))
    \/ \E f \in FileIds, st \in StatusValues : updateSampleStatus(f, st)
    \/ \E f \in FileIds, l \in LogLines : addSampleLog(f, l)
    \/ \E f \in FileIds, p \in ProgressSteps : updateSampleProgress(f, p)
    \/ \E f \in FileIds, r \in AnalysisResults : setSampleAnalysisResult(f, r)
    \/ \E f \in FileIds, u \in VerificationUpdates : addSampleVerificationUpdate(f, u)

SpecStore == Init /\ [][NextStore]_vars

-----------------------------------------------------------------------------
(* SamplesScreen: handleUpload, one position per invocation *)

Invocations == 1..MaxUploads

\* the upload button is pressed; it is disabled while uploading is true
PressUpload(i) ==
    /\ pc[i] = "idle"
    /\ ~ uploading
    /\ pc' = [pc EXCEPT ![i] = "picking"]
    /\ UNCHANGED <<reducerVars, samples, uploading>>

\* getDocumentAsync resolves with canceled: return
PickerCancelled(i) ==
    /\ pc[i] = "picking"
    /\ pc' = [pc EXCEPT ![i] = "cancelled"]
    /\ UNCHANGED <<reducerVars, samples, uploading>>

\* getDocumentAsync rejects: the outer catch
PickerThrows(i) ==
    /\ pc[i] = "picking"
    /\ uploading' = FALSE
    /\ pc' = [pc EXCEPT ![i] = "pickerFailed"]
    /\ UNCHANGED <<reducerVars, samples>>

\* getDocumentAsync resolves with a file: setUploading(true), uploadFile(file)
PickerReturns(i) ==
    /\ pc[i] = "picking"
    /\ uploading' = TRUE
    /\ pc' = [pc EXCEPT ![i] = "uploading"]
    /\ UNCHANGED <<reducerVars, samples>>

\* the user leaves while uploadFile is pending; nothing cancels the request
\* and nothing in handleUpload takes note of it
AbandonUpload(i) ==
    /\ pc[i] = "uploading"
    /\ pc' = [pc EXCEPT ![i] = "abandoned"]
    /\ UNCHANGED <<reducerVars, samples, uploading>>

UploadFailsAddsSample(i) ==
    /\ pc[i] \in {"uploading", "abandoned"}
    /\ samples' = Append(samples, newSample(Undefined, Undefined))
    /\ uploading' = FALSE
    /\ pc' = [pc EXCEPT ![i] = "uploadFailed"]
    /\ UNCHANGED reducerVars

\* uploadFile resolves with {file_id, sample_id}: addSample, setUploading(false)
UploadResponds(i, file_id, sample_id) ==
    /\ pc[i] \in {"uploading", "abandoned"}
    /\ samples' = Append(samples, newSample(file_id, sample_id))
    /\ uploading' = FALSE
    /\ pc' = [pc EXCEPT ![i] = "added"]
    /\ UNCHANGED reducerVars

\* uploadFile rejects: the inner catch
UploadFails(i) ==
    /\ pc[i] \in {"uploading", "abandoned"}
    /\ uploading' = FALSE
    /\ pc' = [pc EXCEPT ![i] = "uploadFailed"]
    /\ UNCHANGED <<reducerVars, samples>>

\* the status of a job moves while uploads are under way
JobStatus(fileId, status) ==
    /\ samples' = withStatus(samples, fileId, status)
    /\ samples' # samples
    /\ UNCHANGED <<reducerVars, uploadVars>>

NextUpload ==
    \/ \E i \in Invocations : PressUpload(i)
    \/ \E i \in Invocations : PickerCancelled(i)
    \/ \E i \in Invocations : PickerThrows(i)
    \/ \E i \in Invocations : PickerReturns(i)
    \/ \E i \in Invocations : AbandonUpload(i)
    \/ \E i \in Invocations, f \in FileIds, sid \in SampleIds :
            UploadResponds(i, f, sid)
    \/ \E i \in Invocations : UploadFails(i)
    \/ \E f \in FileIds, st \in StatusValues : JobStatus(f, st)

SpecUpload == Init /\ [][NextUpload]_vars

-----------------------------------------------------------------------------
(* Helpers of the properties *)

Last(xs) == xs[Len(xs)]

IsPrefix(xs, ys) == Len(xs) <= Len(ys) /\ SubSeq(ys, 1, Len(xs)) = xs

StepOf(steps, id) == steps[findIndexById(steps, id)]

\* What a newly mounted LogDisplay holds after its effect has run on the log L
FreshDerivation(L) ==
    IF Len(L) = 0 THEN INITIAL_PIPELINE
    ELSE stepsUpdater(INITIAL_PIPELINE, L[Len(L)])

Terminal == {"complete", "error"}

StatusRank(st) ==
    CASE st = "uploading" -> 0
      [] st = "running"   -> 1
      [] OTHER            -> 2

-----------------------------------------------------------------------------
(* Properties of the reducer, checked under Spec *)

\* C1: Idempotence. The step array is a function of the current log only: the
\* array the component holds for a log equals the array a newly mounted
\* component derives from that same log, whatever logs were derived before.
C1_Idempotence == pipelineSteps = FreshDerivation(logs)

\* C2: Monotonicity. For every prefix P of the current log L, each step that
\* is complete in the derivation from P is complete in the derivation from L,
\* with the same resultData.
C2_Monotonicity ==
    \A n \in 0..Len(logs) : \A i \in 1..6 :
        LET fromP == FreshDerivation(SubSeq(logs, 1, n))
        IN  fromP[i].status = "complete" =>
                /\ pipelineSteps[i].status = "complete"
                /\ pipelineSteps[i].resultData = fromP[i].resultData

\* C3: Single-active invariant. At most one of the six steps is active.
C3_SingleActive ==
    Cardinality({i \in 1..6 : pipelineSteps[i].status = "active"}) <= 1

\* C8: A terminal error event turns the active step into an error step: once
\* the error event has been processed (it is the last event of the log) no
\* step is left active.
C8_ErrorMarksActiveStep ==
    (logs # <<>> /\ Last(logs).type = "error") =>
        \A i \in 1..6 : pipelineSteps[i].status # "active"

\* C9 (as stated): after a clustering_result event has been processed, steps
\* umap_hdbscan and clustering_result are complete and the resultData of
\* clustering_result is the payload of that event, for any preceding log.
C9_PayloadAlwaysAttached ==
    (logs # <<>> /\ Last(logs).type = "clustering_result") =>
        /\ StepOf(pipelineSteps, "umap_hdbscan").status = "complete"
        /\ StepOf(pipelineSteps, "clustering_result").status = "complete"
        /\ StepOf(pipelineSteps, "clustering_result").resultData = Last(logs).data

\* C9 (amended): processing a clustering_result event leaves umap_hdbscan and
\* clustering_result complete; the resultData of clustering_result is the
\* payload of the event when the step was not complete before the event, and
\* is unchanged when it was already complete.
C9_ClusteringResult ==
    [][ (logs' # <<>> /\ Last(logs').type = "clustering_result") =>
            /\ StepOf(pipelineSteps', "umap_hdbscan").status = "complete"
            /\ StepOf(pipelineSteps', "clustering_result").status = "complete"
            /\ StepOf(pipelineSteps', "clustering_result").resultData =
                  IF StepOf(pipelineSteps, "clustering_result").status # "complete"
                  THEN Last(logs').data
                  ELSE StepOf(pipelineSteps, "clustering_result").resultData
      ]_vars

\* a clustering_result event arrived after the step was already complete with
\* another resultData, and one arrived while the step was not complete
C9_Witness ==
    /\ Len(logs) >= 2
    /\ Last(logs).type = "clustering_result"
    /\ logs[Len(logs) - 1].type \in {"clustering_result", "progress"}
    /\ StepOf(pipelineSteps, "clustering_result").status = "complete"
    /\ StepOf(pipelineSteps, "clustering_result").resultData # Last(logs).data

\* C10: after a complete event has been processed (it is the last event of
\* the log), steps ncbi_verification and analysis_complete are both complete,
\* whatever the log held before it.
C10_CompleteEvent ==
    (logs # <<>> /\ Last(logs).type = "complete") =>
        /\ StepOf(pipelineSteps, "ncbi_verification").status = "complete"
        /\ StepOf(pipelineSteps, "analysis_complete").status = "complete"

\* a complete event processed right after a verification_update event
C10_Witness ==
    /\ Len(logs) >= 2
    /\ Last(logs).type = "complete"
    /\ logs[Len(logs) - 1].type = "verification_update"
    /\ lastVerificationUpdate = logs[Len(logs) - 1]
    /\ StepOf(pipelineSteps, "ncbi_verification").status = "complete"

-----------------------------------------------------------------------------
(* Properties of the registry, checked under SpecStore *)

\* C4: Terminal lockout. Once a record's status is complete or error, no
\* operation changes the length of its logs, progress or verificationUpdates.
C4_TerminalLockout ==
    [][ \A i \in DOMAIN samples :
            samples[i].status \in Terminal =>
                /\ Len(samples'[i].logs) = Len(samples[i].logs)
                /\ Len(samples'[i].progress) = Len(samples[i].progress)
                /\ Len(samples'[i].verificationUpdates) =
                      Len(samples[i].verificationUpdates)
      ]_vars

\* C5: Registry key collision. The registry never holds two records with the
\* same fileId.
C5_UniqueFileId ==
    \A i, j \in DOMAIN samples :
        samples[i].fileId = samples[j].fileId => i = j

\* C6: Job status moves only forward, uploading -> running -> complete or
\* error: no step of the registry lowers a record's status, and a complete or
\* error status never changes again.
C6_StatusForward ==
    [][ \A i \in DOMAIN samples :
            /\ StatusRank(samples[i].status) <= StatusRank(samples'[i].status)
            /\ samples[i].status \in Terminal =>
                  samples'[i].status = samples[i].status
      ]_vars

\* C7: The event log is append-only. In every step of the registry each
\* record stays at its place and the earlier value of its logs, progress and
\* verificationUpdates is a prefix of the later value.
C7_AppendOnly ==
    [][ \A i \in DOMAIN samples :
            /\ i \in DOMAIN samples'
            /\ IsPrefix(samples[i].logs, samples'[i].logs)
            /\ IsPrefix(samples[i].progress, samples'[i].progress)
            /\ IsPrefix(samples[i].verificationUpdates,
                        samples'[i].verificationUpdates)
      ]_vars

\* a record that has received two different log lines, beside a record that
\* was created later and is still empty
C7_Witness ==
    /\ Len(samples) = 2
    /\ samples[1].logs = <<"l1", "l2">>
    /\ samples[2].logs = <<>>


-----------------------------------------------------------------------------
(* The message rules and the cascade *)

StatusOf(steps, id) == StepOf(steps, id).status

\* a log event whose message holds "found" and "sequences" and not
\* "reading sequences"
FoundSequences(e) ==
    /\ e.type = "log"
    /\ includes(toLowerCase(e.message), <<"found">>)
    /\ includes(toLowerCase(e.message), <<"sequences">>)
    /\ ~ includes(toLowerCase(e.message), <<"reading", "sequences">>)

ProgressComplete(i) == ProgressEvent(StepIds[i], "complete")

\* C12: completing step i (a progress event with status complete for a step
\* that is not complete yet) makes step i complete, changes step i+1 to
\* active exactly when step i+1 was pending and leaves it as it is when it
\* was active or complete, and changes no other step, so completing the last
\* step changes no other step; handleCompletion applied to the current array
\* with step i+1 put to error leaves step i+1 as it is.
C12_CascadeRule ==
    [][ \A i \in 1..6 :
          /\ (logs' = Append(logs, ProgressComplete(i))
                /\ pipelineSteps[i].status # "complete")
              => /\ pipelineSteps'[i].status = "complete"
                 /\ (i < 6) =>
                       pipelineSteps'[i + 1] =
                           IF pipelineSteps[i + 1].status = "pending"
                           THEN [pipelineSteps[i + 1] EXCEPT !.status = "active"]
                           ELSE pipelineSteps[i + 1]
                 /\ \A j \in (1..6) \ {i, i + 1} :
                       pipelineSteps'[j] = pipelineSteps[j]
          /\ (i < 6) =>
                LET arr == [pipelineSteps EXCEPT ![i + 1].status = "error"]
                    out == handleCompletion([newSteps |-> arr, changed |-> FALSE],
                                            StepIds[i], Undefined).newSteps
                IN  out[i + 1] = arr[i + 1]
      ]_vars

C12_Witness ==
    /\ logs = << ProgressComplete(2), ProgressComplete(1) >>
    /\ StatusOf(pipelineSteps, "read_sequences") = "complete"
    /\ StatusOf(pipelineSteps, "generate_embeddings") = "complete"
    /\ StatusOf(pipelineSteps, "umap_hdbscan") = "active"

-----------------------------------------------------------------------------
(* The empty log *)

\* C13: whenever the log is empty, at the start or after a non-empty log was
\* replaced by the empty one, all six steps are pending and none has a
\* resultData.
C13_EmptyLog ==
    logs = <<>> =>
        /\ Len(pipelineSteps) = 6
        /\ \A i \in 1..6 :
              /\ pipelineSteps[i].id = StepIds[i]
              /\ pipelineSteps[i].status = "pending"
              /\ pipelineSteps[i].resultData = Undefined

C13_Witness ==
    /\ logs = <<>>
    /\ pipelineSteps = INITIAL_PIPELINE
    /\ lastVerificationUpdate = NullLog

-----------------------------------------------------------------------------
(* The view mode *)

\* C14: the view of a non-empty log is fixed by its first event: the JSON
\* view, showing the payload of that first event and deriving no steps, when
\* the first event is a json_result, the pipeline view otherwise; appending
\* events of any kind to a non-empty log leaves the mode as it was.
C14_ViewModeFixed ==
    [][ /\ (logs' # <<>> /\ logs'[1].type = "json_result")
            => LogDisplayView(logs') =
                   [mode |-> "json", shown |-> <<"json text", logs'[1].data>>,
                    derivesSteps |-> FALSE]
        /\ (logs' # <<>> /\ logs'[1].type # "json_result")
            => /\ LogDisplayView(logs').mode = "pipeline"
               /\ LogDisplayView(logs').derivesSteps
        /\ (logs # <<>> /\ IsPrefix(logs, logs'))
            => LogDisplayView(logs').mode = LogDisplayView(logs).mode
      ]_vars

C14_Witness ==
    /\ Len(logs) = 3
    /\ logs[1] = JsonResultEvent("j1")
    /\ logs[2] = CompleteEvent
    /\ logs[3] = JsonResultEvent("j2")
    /\ LogDisplayView(logs).mode = "json"
    /\ LogDisplayView(logs).shown = <<"json text", "j1">>

-----------------------------------------------------------------------------
(* Mutations addressed to a fileId *)

HasRecord(ss, fileId) == \E i \in DOMAIN ss : ss[i].fileId = fileId

\* the mutators that take a fileId, with their arguments
Mutations ==
    { [kind |-> "updateSampleStatus", arg |-> st] : st \in StatusValues }
    \cup { [kind |-> "addSampleLog", arg |-> l] : l \in LogLines }
    \cup { [kind |-> "updateSampleProgress", arg |-> p] : p \in ProgressSteps }
    \cup { [kind |-> "setSampleAnalysisResult", arg |-> r] : r \in AnalysisResults }
    \cup { [kind |-> "addSampleVerificationUpdate", arg |-> u] :
               u \in VerificationUpdates }

\* the registry that mutation m addressed to fileId makes of ss
Mutate(ss, m, fileId) ==
    CASE m.kind = "updateSampleStatus"          -> withStatus(ss, fileId, m.arg)
      [] m.kind = "addSampleLog"                -> withLog(ss, fileId, m.arg)
      [] m.kind = "updateSampleProgress"        -> withProgress(ss, fileId, m.arg)
      [] m.kind = "setSampleAnalysisResult"     -> withAnalysisResult(ss, fileId, m.arg)
      [] m.kind = "addSampleVerificationUpdate" -> withVerificationUpdate(ss, fileId, m.arg)

\* C15: an append (of a log line, a progress entry or a verification update)
\* addressed to a fileId that has no record creates no record and changes no
\* record: no step of the registry that changes it is such an append, and
\* the registry such an append computes is the registry it started from.
C15_AppendToAbsent ==
    [][ \A f \in FileIds :
          ~ HasRecord(samples, f) =>
              /\ \A l \in LogLines :
                    /\ withLog(samples, f, l) = samples
                    /\ addSampleLog(f, l) => samples' = samples
              /\ \A p \in ProgressSteps :
                    /\ withProgress(samples, f, p) = samples
                    /\ updateSampleProgress(f, p) => samples' = samples
              /\ \A u \in VerificationUpdates :
                    /\ withVerificationUpdate(samples, f, u) = samples
                    /\ addSampleVerificationUpdate(f, u) => samples' = samples
      ]_vars

C15_Witness ==
    /\ Len(samples) = 1
    /\ samples[1].fileId = "f1"
    /\ samples[1].logs = <<"l1">>
    /\ ~ HasRecord(samples, "f2")
    /\ withLog(samples, "f2", "l2") = samples

\* every record of ss whose fileId differs from fileId is at its place in after
OthersUnchanged(ss, after, fileId) ==
    /\ Len(after) = Len(ss)
    /\ \A i \in DOMAIN ss : ss[i].fileId # fileId => after[i] = ss[i]

\* one mutation of each kind
OneOfEachKind ==
    { [kind |-> "updateSampleStatus", arg |-> "complete"],
      [kind |-> "addSampleLog", arg |-> "l2"],
      [kind |-> "updateSampleProgress", arg |-> "p1"],
      [kind |-> "setSampleAnalysisResult", arg |-> "r1"],
      [kind |-> "addSampleVerificationUpdate", arg |-> "v1"] }

\* C16: a mutation addressed to fileId x (status change, log append, progress
\* append, result set, verification append, with any argument) keeps the
\* number and order of the records and leaves every record whose fileId
\* differs from x as it was; a mutation of any kind addressed to f1 and a
\* mutation of any kind addressed to f2 give the same registry in either
\* order.
C16_JobsIndependent ==
    /\ \A x \in FileIds, m \in Mutations :
          OthersUnchanged(samples, Mutate(samples, m, x), x)
    /\ \A m \in OneOfEachKind :
          LET onX == Mutate(samples, m, "f1")
          IN  \A n \in OneOfEachKind :
                  Mutate(onX, n, "f2") = Mutate(Mutate(samples, n, "f2"), m, "f1")

C16_Witness ==
    /\ Len(samples) = 2
    /\ samples[1].fileId = "f1"
    /\ samples[2].fileId = "f2"
    /\ Mutate(samples, [kind |-> "addSampleLog", arg |-> "l1"], "f1") # samples
    /\ Mutate(samples, [kind |-> "updateSampleStatus", arg |-> "complete"], "f2")
           # samples

-----------------------------------------------------------------------------
(* Uploads *)

\* C17: a step in which an invocation of handleUpload ends without a
\* response (the picker is cancelled or throws, or uploadFile rejects) leaves
\* the registry as it was, and a step that adds a record to the registry is
\* the step of an invocation whose uploadFile was pending and has returned a
\* response.
C17_FailedUploadAddsNothing ==
    [][ /\ \A i \in Invocations :
              (pc'[i] # pc[i]
                 /\ pc'[i] \in {"uploadFailed", "pickerFailed", "cancelled"})
                  => samples' = samples
        /\ \A i \in Invocations : UploadFails(i) => samples' = samples
        /\ Len(samples') > Len(samples)
              => \E i \in Invocations :
                    /\ pc[i] \in {"uploading", "abandoned"}
                    /\ pc'[i] = "added"
      ]_vars

C17_Witness ==
    /\ pc[1] = "uploadFailed"
    /\ pc[2] = "added"
    /\ Len(samples) = 1

\* C18: a step in which the response of an abandoned upload request arrives
\* leaves the registry as it was: it creates no record, so no record is
\* added for a fileId whose job is complete.
C18_StaleResponseDiscarded ==
    [][ \A i \in Invocations :
          (pc[i] = "abandoned" /\ pc'[i] # "abandoned") => samples' = samples
      ]_vars

-----------------------------------------------------------------------------
(* Verification updates *)

CompleteSteps(steps) == { i \in DOMAIN steps : steps[i].status = "complete" }

\* C19: when the event just appended is a verification_update, the same
\* steps are complete after it as before it, ncbi_verification is active if
\* it was pending and keeps its status otherwise (so it is not pending), no
\* other step changes, and the event is the latest verification snapshot.
C19_VerificationUpdate ==
    [][ (Len(logs') > Len(logs) /\ Last(logs').type = "verification_update")
          => /\ CompleteSteps(pipelineSteps') = CompleteSteps(pipelineSteps)
             /\ StatusOf(pipelineSteps', "ncbi_verification") # "pending"
             /\ StatusOf(pipelineSteps', "ncbi_verification") =
                    IF StatusOf(pipelineSteps, "ncbi_verification") = "pending"
                    THEN "active"
                    ELSE StatusOf(pipelineSteps, "ncbi_verification")
             /\ \A i \in 1..6 :
                    pipelineSteps[i].id # "ncbi_verification"
                        => pipelineSteps'[i] = pipelineSteps[i]
             /\ lastVerificationUpdate' = Last(logs')
      ]_vars

C19_Witness ==
    /\ logs = << VerificationEvent("v1"), CompleteEvent, VerificationEvent("v2") >>
    /\ StatusOf(pipelineSteps, "ncbi_verification") = "complete"
    /\ StatusOf(pipelineSteps, "analysis_complete") = "complete"
    /\ lastVerificationUpdate = VerificationEvent("v2")

\* the log without its verification_update events
WithoutVerification(L) ==
    SelectSeq(L, LAMBDA e : e.type # "verification_update")

\* C20: the derivation from a log has the same complete steps, and the same
\* resultData of step clustering_result, as the derivation from that log
\* without its verification_update events.
C20_VerificationTolerated ==
    LET with    == FreshDerivation(logs)
        without == FreshDerivation(WithoutVerification(logs))
    IN  /\ CompleteSteps(with) = CompleteSteps(without)
        /\ StepOf(with, "clustering_result").resultData =
               StepOf(without, "clustering_result").resultData

-----------------------------------------------------------------------------
(* Progress events *)

\* the event just appended, when the step is an append
Appended(e) == Len(logs') = Len(logs) + 1 /\ Last(logs') = e

\* C21: a progress event with status complete and the id of one of the six
\* steps leaves that step complete and the next step, when it was pending,
\* active; a progress event whose status is not complete, whose step id is
\* missing or whose step id is none of the six leaves the step array as it
\* was.
C21_ProgressEvents ==
    [][ /\ \A i \in 1..6 :
              Appended(ProgressComplete(i))
                  => /\ pipelineSteps'[i].status = "complete"
                     /\ (i < 6 /\ pipelineSteps[i + 1].status = "pending")
                            => pipelineSteps'[i + 1].status = "active"
        /\ (Len(logs') = Len(logs) + 1
              /\ Last(logs').type = "progress"
              /\ \/ Last(logs').status # "complete"
                 \/ Last(logs').step = ""
                 \/ \A i \in 1..6 : Last(logs').step # StepIds[i])
                => pipelineSteps' = pipelineSteps
      ]_vars

C21_Witness ==
    /\ logs = << ProgressComplete(3), ProgressEvent("umap_hdbscan", "running"),
                 ProgressEvent("quality_control", "complete") >>
    /\ StatusOf(pipelineSteps, "umap_hdbscan") = "complete"
    /\ StatusOf(pipelineSteps, "clustering_result") = "active"
    /\ StatusOf(pipelineSteps, "read_sequences") = "pending"

-----------------------------------------------------------------------------
(* Idempotence of a completion *)

\* C22: handleCompletion on a step that is complete changes nothing, neither
\* its resultData nor the next step; a clustering_result event that follows
\* another one keeps the payload of the first; and an event appended a
\* second time in a row, or processed once more, leaves the step array that
\* its first processing gave.
C22_CompletionIdempotent ==
    [][ /\ \A i \in 1..6 :
              pipelineSteps[i].status = "complete"
                  => handleCompletion([newSteps |-> pipelineSteps, changed |-> FALSE],
                                      StepIds[i], "d2")
                       = [newSteps |-> pipelineSteps, changed |-> FALSE]
        /\ (Len(logs') = Len(logs) + 1 /\ logs # <<>>
              /\ Last(logs).type = "clustering_result"
              /\ Last(logs').type = "clustering_result")
                => pipelineSteps' = pipelineSteps
        /\ (Len(logs') = Len(logs) + 1 /\ logs # <<>> /\ Last(logs') = Last(logs))
                => pipelineSteps' = pipelineSteps
        /\ (Len(logs') = Len(logs) + 1)
                => stepsUpdater(pipelineSteps', Last(logs')) = pipelineSteps'
      ]_vars

C22_Witness ==
    /\ logs = << ClusteringEvent("d1"), ClusteringEvent("d2") >>
    /\ StatusOf(pipelineSteps, "clustering_result") = "complete"
    /\ StepOf(pipelineSteps, "clustering_result").resultData = "d1"
    /\ StatusOf(pipelineSteps, "ncbi_verification") = "active"

-----------------------------------------------------------------------------
(* The incremental reducer against the fold of the log *)

C24_LastEventOnly ==
    [][ logs' # <<>>
          => /\ pipelineSteps' = stepsUpdater(pipelineSteps, Last(logs'))
             /\ lastVerificationUpdate' =
                    verificationUpdater(lastVerificationUpdate, Last(logs'))
             /\ (Len(logs') = Len(logs) + 2)
                    => pipelineSteps' =
                           stepsUpdater(pipelineSteps, logs'[Len(logs) + 2])
             /\ (logs # <<>> /\ Len(logs') = 1)
                    => CompleteSteps(pipelineSteps) \subseteq CompleteSteps(pipelineSteps')
      ]_vars

C24_Witness ==
    /\ logs = << ClusteringEvent("d1"), CompleteEvent >>
    /\ StatusOf(pipelineSteps, "clustering_result") = "pending"
    /\ StatusOf(pipelineSteps, "umap_hdbscan") = "pending"
    /\ StatusOf(pipelineSteps, "analysis_complete") = "complete"

-----------------------------------------------------------------------------
(* The six message rules *)

\* rule k matches the lower-cased message m
RuleMatches(k, m) ==
    CASE k = 1 -> includes(m, <<"reading", "sequences">>)
      [] k = 2 -> includes(m, <<"found">>) /\ includes(m, <<"sequences">>)
      [] k = 3 -> includes(m, <<"generating">>) /\ includes(m, <<"embeddings">>)
      [] k = 4 -> includes(m, <<"running", "umap">>)
      [] k = 5 -> includes(m, <<"clustering", "complete">>)
      [] k = 6 -> includes(m, <<"ncbi", "verification">>)

\* what rule k does to the steps
RuleEffect(k, steps) ==
    LET st == [newSteps |-> steps, changed |-> FALSE]
    IN  CASE k = 1 -> activateStep(st, "read_sequences").newSteps
          [] k = 2 -> handleCompletion(st, "read_sequences", Undefined).newSteps
          [] k = 3 -> activateStep(st, "generate_embeddings").newSteps
          [] k = 4 -> activateStep(
                          handleCompletion(st, "generate_embeddings", Undefined),
                          "umap_hdbscan").newSteps
          [] k = 5 -> handleCompletion(st, "umap_hdbscan", Undefined).newSteps
          [] k = 6 -> activateStep(st, "ncbi_verification").newSteps

\* C25: a log event does to the steps what the first of the six rules, in
\* their fixed order, that matches its lower-cased message does, and nothing
\* else: no later rule fires, and a message that matches no rule leaves the
\* steps as they were.
C25_FirstRuleOnly ==
    [][ (Len(logs') = Len(logs) + 1 /\ Last(logs').type = "log")
          => LET m == toLowerCase(Last(logs').message)
                 matching == { k \in 1..6 : RuleMatches(k, m) }
             IN  IF matching = {}
                 THEN pipelineSteps' = pipelineSteps
                 ELSE LET first == CHOOSE k \in matching :
                                      \A j \in matching : k <= j
                      IN  pipelineSteps' = RuleEffect(first, pipelineSteps)
      ]_vars

C25_Witness ==
    /\ logs = << LogEvent(<<"Reading", "sequences", "found">>),
                 LogEvent(<<"Generating", "embeddings", "Running", "UMAP">>) >>
    /\ StatusOf(pipelineSteps, "read_sequences") = "active"
    /\ StatusOf(pipelineSteps, "generate_embeddings") = "active"
    /\ StatusOf(pipelineSteps, "umap_hdbscan") = "pending"

-----------------------------------------------------------------------------
(* Events the reducer does not recognise *)

KnownTypes ==
    {"log", "progress", "clustering_result", "verification_update", "complete"}

\* C26: a log event whose lower-cased message matches none of the six rules,
\* and an event whose type is none of log, progress, clustering_result,
\* verification_update and complete, leave the status and the resultData of
\* all six steps as they were.
C26_UnrecognisedEvents ==
    [][ (Len(logs') = Len(logs) + 1
          /\ \/ /\ Last(logs').type = "log"
                /\ \A k \in 1..6 :
                      ~ RuleMatches(k, toLowerCase(Last(logs').message))
             \/ Last(logs').type \notin KnownTypes)
          => /\ Len(pipelineSteps') = 6
             /\ \A i \in 1..6 :
                   /\ pipelineSteps'[i].status = pipelineSteps[i].status
                   /\ pipelineSteps'[i].resultData = pipelineSteps[i].resultData
      ]_vars

C26_Witness ==
    /\ logs = << ClusteringEvent("d1"), LogEvent(<<"Connected">>), ErrorEvent >>
    /\ CompleteSteps(pipelineSteps) = {3, 4}
    /\ StepOf(pipelineSteps, "clustering_result").resultData = "d1"
    /\ StatusOf(pipelineSteps, "ncbi_verification") = "active"

-----------------------------------------------------------------------------
(* Statuses move forward *)

\* the order pending < active < complete of the step statuses
StepRank(status) ==
    CASE status = "pending"  -> 0
      [] status = "active"   -> 1
      [] status = "complete" -> 2

\* C27: an event never moves the status of a step backwards in the order
\* pending < active < complete, whatever the step array before it, and the
\* array holds the six step ids in their order at all times.
C27_StatusForward ==
    [][ /\ logs' # <<>>
              => \A i \in 1..6 :
                    StepRank(pipelineSteps'[i].status)
                        >= StepRank(pipelineSteps[i].status)
        /\ [i \in DOMAIN pipelineSteps' |-> pipelineSteps'[i].id] = StepIds
        /\ \A i \in 1..6 :
              pipelineSteps'[i].status \in {"pending", "active", "complete"}
      ]_vars

C27_Witness ==
    /\ logs = << ProgressComplete(5), VerificationEvent("v1"),
                 LogEvent(<<"NCBI", "verification">>) >>
    /\ StatusOf(pipelineSteps, "ncbi_verification") = "complete"
    /\ StatusOf(pipelineSteps, "analysis_complete") = "active"

-----------------------------------------------------------------------------
(* The records of the registry *)

\* C28: no step of the registry removes, moves or re-keys a record: every
\* record stays at its index with the fileId and sampleId it was created
\* with, and a step that changes the length of the list adds exactly one
\* record at the end and leaves the others as they were (it is addSample).
C28_RecordsKept ==
    [][ /\ Len(samples') \in {Len(samples), Len(samples) + 1}
        /\ \A i \in DOMAIN samples :
              /\ samples'[i].fileId = samples[i].fileId
              /\ samples'[i].sampleId = samples[i].sampleId
        /\ Len(samples') = Len(samples) + 1
              => /\ SubSeq(samples', 1, Len(samples)) = samples
                 /\ \E f \in FileIds, sid \in SampleIds :
                       addSample(newSample(f, sid))
      ]_vars

C28_Witness ==
    /\ Len(samples) = 2
    /\ samples[1].fileId = "f2"
    /\ samples[2].fileId = "f1"
    /\ samples[1].status = "error"
    /\ samples[2].logs = <<"l1", "l2">>

\* the field a mutation writes and the value it gives it in record s
FieldOf(m) ==
    CASE m.kind = "updateSampleStatus"          -> "status"
      [] m.kind = "addSampleLog"                -> "logs"
      [] m.kind = "updateSampleProgress"        -> "progress"
      [] m.kind = "setSampleAnalysisResult"     -> "latestAnalysis"
      [] m.kind = "addSampleVerificationUpdate" -> "verificationUpdates"

ValueOf(m, s) ==
    CASE m.kind = "updateSampleStatus"          -> m.arg
      [] m.kind = "addSampleLog"                -> Append(s.logs, m.arg)
      [] m.kind = "updateSampleProgress"        -> Append(s.progress, m.arg)
      [] m.kind = "setSampleAnalysisResult"     -> m.arg
      [] m.kind = "addSampleVerificationUpdate" -> Append(s.verificationUpdates, m.arg)

\* C29: at all times each mutator, addressed to any fileId, gives every
\* record with that fileId its one field (status, logs, progress,
\* latestAnalysis, verificationUpdates) and leaves its other fields and
\* every other record as they were; a second result replaces the first; an
\* append leaves the status as it was; getSample reads the first record with
\* the fileId, or undefined, and the registry is the same after it.
C29_OneFieldEach ==
    [](/\ \A f \in FileIds :
            \A m \in Mutations \cup {[kind |-> "setSampleAnalysisResult", arg |-> "r2"]} :
                LET after == Mutate(samples, m, f)
                IN  /\ DOMAIN after = DOMAIN samples
                    /\ \A i \in DOMAIN samples :
                          /\ after[i] =
                                IF samples[i].fileId = f
                                THEN [samples[i] EXCEPT
                                         ![FieldOf(m)] = ValueOf(m, samples[i])]
                                ELSE samples[i]
                          /\ FieldOf(m) # "status"
                                => after[i].status = samples[i].status
                          /\ (m.kind = "setSampleAnalysisResult"
                                /\ samples[i].fileId = f)
                                => after[i].latestAnalysis = m.arg
       /\ \A f \in FileIds :
            IF HasRecord(samples, f)
            THEN \E i \in DOMAIN samples :
                    /\ getSample(f) = samples[i]
                    /\ samples[i].fileId = f
                    /\ \A j \in 1..(i - 1) : samples[j].fileId # f
            ELSE getSample(f) = Undefined)

C29_Witness ==
    /\ Len(samples) = 2
    /\ samples[1].fileId = "f1"
    /\ samples[2].fileId = "f2"
    /\ samples[1].latestAnalysis = "r1"
    /\ samples[1].status = "running"
    /\ samples[2].progress = <<"p1">>
    /\ samples[2].verificationUpdates = <<"v1">>


\* C30: while an invocation of handleUpload is awaiting the response of
\* uploadFile the uploading flag is true, and when no invocation is between
\* its start and its exit the flag is false, for every interleaving of the
\* invocations and every exit path.
C30_UploadingFlag ==
    /\ (\E i \in Invocations : pc[i] \in {"uploading", "abandoned"})
            => uploading
    /\ (\A i \in Invocations : pc[i] \notin {"picking", "uploading", "abandoned"})
            => ~ uploading

====
